---- MODULE Spec2Model ----
(***************************************************************************)
(* gpsd-threaded: the GpsResponse merge state (gpsresponse.py) and the     *)
(* ThreadedClient accumulator (threadedclient.py).                         *)
(*                                                                         *)
(* A GpsResponse object is a record of its attributes.  Its `error`        *)
(* attribute is a Python dict, a mutable object: the record holds a        *)
(* reference into `heap`, and `self.error = {...}` binds a fresh dict      *)
(* while `self.error['c'] = ...` mutates the dict in place.  All other     *)
(* attributes hold immutable values (int, float, str).                     *)
(*                                                                         *)
(* Floats are modelled by small integers; the timestamp by a string.       *)
(***************************************************************************)
EXTENDS Integers, Sequences, FiniteSets, TLC

VARIABLES
    running,    \* ThreadedClient._running
    lock,       \* ThreadedClient._lock: "free" or the name of the holder
    gps,        \* ThreadedClient._gps, the accumulator's GpsResponse
    gpsd,       \* ThreadedClient._gpsd: "None" or "client"
    heap,       \* the dict objects alive: reference -> dict
    pcMain,     \* the foreground thread calling connect() and terminate()
    pcRun,      \* the background thread executing run()
    todo,       \* run(): what is left of the parse_packet call in progress
    exc,        \* the exception that ended run(), "none" when there is none
    nstarted,   \* number of Thread.start() calls made by connect()
    pcReader,   \* each reader's position in get_current()
    snap,       \* each reader's latest return value of get_current(): <<>> or <<g>>
    stream,     \* the reports handed out so far, in order
    atError,    \* history: <<the accumulator's state when the transport last
                \* failed>>, <<>> once a later report starts being applied
    ret         \* the outcome of the last accessor call on the GpsResponse:
                \* <<>> or <<accessor, result>>

vars == <<running, lock, gps, gpsd, heap, pcMain, pcRun, todo, exc, nstarted,
          pcReader, snap, stream, atError, ret>>

----------------------------------------------------------------------------
(* Bounds of the model *)

\* reports the transport yields in one run of the threaded client
MaxReports == 2
\* reports applied in one run of the sequential merge
MaxApply == 2

\* the foreground callers of get_current()
ReaderOrder == <<"r1", "r2">>
Readers == {ReaderOrder[i] : i \in 1..Len(ReaderOrder)}

\* the value a caller writes into a snapshot it owns
Scribble == 9

----------------------------------------------------------------------------
(* GpsResponse: the data *)

EmptyDict == [k \in {} |-> 0]

Get(d, k, default) == IF k \in DOMAIN d THEN d[k] ELSE default

\* GpsResponse.__init__: the attributes, `error` bound to the dict at `ref`
GpsResponseInit(ref) ==
    [mode |-> 0, sats |-> 0, sats_valid |-> 0, lon |-> 0, lat |-> 0, alt |-> 0,
     track |-> 0, hspeed |-> 0, climb |-> 0, time |-> "", error |-> ref,
     heading |-> 0, pitch |-> 0, roll |-> 0]

\* the object with its dict inlined: what a reader of the object sees
Val(g, h) == [g EXCEPT !.error = h[g.error]]

\* the smallest reference not in use
Alloc(used) == CHOOSE i \in 0..Cardinality(used) :
                   i \notin used /\ \A j \in 0..(i - 1) : j \in used

\* the references the snapshots of the readers in rs hold
SnapRefs(sn, rs) == {sn[r][1].error : r \in {q \in rs : sn[q] # <<>>}}

\* The references in use, in a fixed order: the accumulator's, then each
\* reader's (the accumulator's again where a reader holds no snapshot).
RefSeq(g, sn) ==
    <<g.error>> \o [i \in 1..Len(ReaderOrder) |->
                      IF sn[ReaderOrder[i]] # <<>> THEN sn[ReaderOrder[i]][1].error
                      ELSE g.error]

\* A reference has no meaning beyond which objects share it.  Rename renumbers
\* the references in order of first use, and Normalize keeps only the dicts
\* some object still refers to (reference counting) under the new numbers.
Rename(g, sn, ref) ==
    LET rs == RefSeq(g, sn)
        first == CHOOSE i \in 1..Len(rs) : rs[i] = ref /\ \A j \in 1..(i - 1) : rs[j] # ref
    IN  Cardinality({rs[j] : j \in 1..(first - 1)})

Normalize(g, sn, h) ==
    [g    |-> [g EXCEPT !.error = Rename(g, sn, @)],
     snap |-> [r \in DOMAIN sn |->
                  IF sn[r] = <<>> THEN <<>>
                  ELSE <<[sn[r][1] EXCEPT !.error = Rename(g, sn, @)]>>],
     h    |-> LET live == {g.error} \cup SnapRefs(sn, DOMAIN sn)
              IN  [n \in {Rename(g, sn, ref) : ref \in live} |->
                      h[CHOOSE ref \in live : Rename(g, sn, ref) = n]]]

----------------------------------------------------------------------------
(* GpsResponse: the statements of the parse_* methods, in execution order. *)
(* A statement is an attribute assignment, the binding of a new dict to    *)
(* self.error, or an item assignment on the dict self.error refers to.     *)

SetAttr(f, v)  == [op |-> "setattr", f |-> f, v |-> v]
NewError(d)    == [op |-> "newerror", f |-> "error", v |-> d]
SetItem(k, v)  == [op |-> "setitem", f |-> k, v |-> v]

\* a parse_tpv that clears the fix when the mode is below 2
parse_tpv_clears(last_tpv) ==
    <<SetAttr("mode", last_tpv.mode)>>
    \o (IF last_tpv.mode >= 2
        THEN <<SetAttr("lon", Get(last_tpv, "lon", 0)),
               SetAttr("lat", Get(last_tpv, "lat", 0)),
               SetAttr("track", Get(last_tpv, "track", 0)),
               SetAttr("hspeed", Get(last_tpv, "speed", 0)),
               SetAttr("time", Get(last_tpv, "time", "")),
               NewError([c |-> 0,
                         s |-> Get(last_tpv, "eps", 0),
                         t |-> Get(last_tpv, "ept", 0),
                         v |-> 0,
                         x |-> Get(last_tpv, "epx", 0),
                         y |-> Get(last_tpv, "epy", 0)])>>
        ELSE <<SetAttr("lon", 0), SetAttr("lat", 0), SetAttr("alt", 0)>>)
    \o (IF last_tpv.mode >= 3
        THEN <<SetAttr("alt", Get(last_tpv, "alt", 0)),
               SetAttr("climb", Get(last_tpv, "climb", 0)),
               SetItem("c", Get(last_tpv, "epc", 0)),
               SetItem("v", Get(last_tpv, "epv", 0))>>
        ELSE <<>>)

\* a parse_tpv that updates the 2D margins in place and leaves 'c' and 'v'
\* to 3D reports
parse_tpv_keeps_vertical(last_tpv) ==
    <<SetAttr("mode", last_tpv.mode)>>
    \o (IF last_tpv.mode >= 2
        THEN <<SetAttr("lon", Get(last_tpv, "lon", 0)),
               SetAttr("lat", Get(last_tpv, "lat", 0)),
               SetAttr("track", Get(last_tpv, "track", 0)),
               SetAttr("hspeed", Get(last_tpv, "speed", 0)),
               SetAttr("time", Get(last_tpv, "time", "")),
               SetItem("s", Get(last_tpv, "eps", 0)),
               SetItem("t", Get(last_tpv, "ept", 0)),
               SetItem("x", Get(last_tpv, "epx", 0)),
               SetItem("y", Get(last_tpv, "epy", 0))>>
        ELSE <<>>)
    \o (IF last_tpv.mode >= 3
        THEN <<SetAttr("alt", Get(last_tpv, "alt", 0)),
               SetAttr("climb", Get(last_tpv, "climb", 0)),
               SetItem("c", Get(last_tpv, "epc", 0)),
               SetItem("v", Get(last_tpv, "epv", 0))>>
        ELSE <<>>)

\* a parse_tpv whose dict display has no 'c' and 'v' items
parse_tpv_no_cv(last_tpv) ==
    <<SetAttr("mode", last_tpv.mode)>>
    \o (IF last_tpv.mode >= 2
        THEN <<SetAttr("lon", Get(last_tpv, "lon", 0)),
               SetAttr("lat", Get(last_tpv, "lat", 0)),
               SetAttr("track", Get(last_tpv, "track", 0)),
               SetAttr("hspeed", Get(last_tpv, "speed", 0)),
               SetAttr("time", Get(last_tpv, "time", "")),
               NewError([s |-> Get(last_tpv, "eps", 0),
                         t |-> Get(last_tpv, "ept", 0),
                         x |-> Get(last_tpv, "epx", 0),
                         y |-> Get(last_tpv, "epy", 0)])>>
        ELSE <<>>)
    \o (IF last_tpv.mode >= 3
        THEN <<SetAttr("alt", Get(last_tpv, "alt", 0)),
               SetAttr("climb", Get(last_tpv, "climb", 0)),
               SetItem("c", Get(last_tpv, "epc", 0)),
               SetItem("v", Get(last_tpv, "epv", 0))>>
        ELSE <<>>)

parse_tpv(last_tpv) ==
    <<SetAttr("mode", last_tpv.mode)>>
    \o (IF last_tpv.mode >= 2
        THEN <<SetAttr("lon", Get(last_tpv, "lon", 0)),
               SetAttr("lat", Get(last_tpv, "lat", 0)),
               SetAttr("track", Get(last_tpv, "track", 0)),
               SetAttr("hspeed", Get(last_tpv, "speed", 0)),
               SetAttr("time", Get(last_tpv, "time", "")),
               NewError([c |-> 0,
                         s |-> Get(last_tpv, "eps", 0),
                         t |-> Get(last_tpv, "ept", 0),
                         v |-> 0,
                         x |-> Get(last_tpv, "epx", 0),
                         y |-> Get(last_tpv, "epy", 0)])>>
        ELSE <<>>)
    \o (IF last_tpv.mode >= 3
        THEN <<SetAttr("alt", Get(last_tpv, "alt", 0)),
               SetAttr("climb", Get(last_tpv, "climb", 0)),
               SetItem("c", Get(last_tpv, "epc", 0)),
               SetItem("v", Get(last_tpv, "epv", 0))>>
        ELSE <<>>)

\* a parse_sky that counts every satellite as used
parse_sky_counts_all(last_sky) ==
    IF "satellites" \in DOMAIN last_sky
    THEN <<SetAttr("sats", Len(last_sky.satellites)),
           SetAttr("sats_valid", Len(last_sky.satellites))>>
    ELSE <<SetAttr("sats", 0), SetAttr("sats_valid", 0)>>

\* a parse_sky with the two counters exchanged
parse_sky_swapped(last_sky) ==
    IF "satellites" \in DOMAIN last_sky
    THEN <<SetAttr("sats_valid", Len(last_sky.satellites)),
           SetAttr("sats",
                   Cardinality({i \in 1..Len(last_sky.satellites) :
                                    last_sky.satellites[i].used = TRUE}))>>
    ELSE <<SetAttr("sats", 0), SetAttr("sats_valid", 0)>>

parse_sky(last_sky) ==
    IF "satellites" \in DOMAIN last_sky
    THEN <<SetAttr("sats", Len(last_sky.satellites)),
           SetAttr("sats_valid",
                   Cardinality({i \in 1..Len(last_sky.satellites) :
                                    last_sky.satellites[i].used = TRUE}))>>
    ELSE <<SetAttr("sats", 0), SetAttr("sats_valid", 0)>>

parse_att(last_att) ==
    <<SetAttr("heading", Get(last_att, "heading", 0)),
      SetAttr("pitch", Get(last_att, "pitch", 0)),
      SetAttr("roll", Get(last_att, "roll", 0))>>

\* a call in progress: the statements still to execute, then the exception
\* raised ("none": the call returns)
Call(steps, raises) == [steps |-> steps, raises |-> raises]

\* a parse_poll that tests `active` after merging the sub-reports
parse_poll_checks_late(packet) ==
    Call(parse_tpv(packet.tpv[Len(packet.tpv)])
         \o parse_sky(packet.sky[Len(packet.sky)]),
         IF ~packet.active THEN "UserWarning" ELSE "none")

\* a parse_poll that merges the first entry of each list
parse_poll_first(packet) ==
    IF ~packet.active
    THEN Call(<<>>, "UserWarning")
    ELSE Call(parse_tpv(packet.tpv[1]) \o parse_sky(packet.sky[1]), "none")

parse_poll(packet) ==
    IF ~packet.active
    THEN Call(<<>>, "UserWarning")
    ELSE Call(parse_tpv(packet.tpv[Len(packet.tpv)])
              \o parse_sky(packet.sky[Len(packet.sky)]), "none")

parse_packet(packet) ==
    IF packet.class = "POLL" THEN parse_poll(packet)
    ELSE IF packet.class = "TPV" THEN Call(parse_tpv(packet), "none")
    ELSE IF packet.class = "SKY" THEN Call(parse_sky(packet), "none")
    ELSE IF packet.class = "ATT" THEN Call(parse_att(packet), "none")
    ELSE Call(<<>>, "none")

\* One statement executed on the object g in heap h.
Exec(g, h, w) ==
    IF w.op = "setattr" THEN [g |-> [g EXCEPT ![w.f] = w.v], h |-> h]
    ELSE IF w.op = "newerror"
    THEN LET n == Alloc(DOMAIN h)
         IN  [g |-> [g EXCEPT !.error = n],
              h |-> [i \in DOMAIN h \cup {n} |-> IF i = n THEN w.v ELSE h[i]]]
    ELSE [g |-> g,
          h |-> [h EXCEPT ![g.error] =
                    [k \in DOMAIN @ \cup {w.f} |-> IF k = w.f THEN w.v ELSE @[k]]]]

RECURSIVE ExecAll(_, _, _)
ExecAll(g, h, steps) ==
    IF steps = <<>> THEN [g |-> g, h |-> h]
    ELSE LET st == Exec(g, h, Head(steps))
         IN  ExecAll(st.g, st.h, Tail(steps))

----------------------------------------------------------------------------
(* GpsResponse: the accessors.  A result is the value returned or the      *)
(* exception raised.                                                       *)

Returns(v) == [raised |-> "none", value |-> <<v>>]
Raises(e)  == [raised |-> e, value |-> <<>>]

\* the pair in the wrong order
position_swapped(g) ==
    IF g.mode < 2 THEN Raises("NoFixError") ELSE Returns(<<g.lon, g.lat>>)

position(g) ==
    IF g.mode < 2 THEN Raises("NoFixError") ELSE Returns(<<g.lat, g.lon>>)

Abs(n) == IF n < 0 THEN -n ELSE n
Max(a, b) == IF a >= b THEN a ELSE b
\* whether d[k] finds an item for every k in ks (KeyError otherwise)
HasKeys(d, ks) == ks \subseteq DOMAIN d

\* an altitude() without the fix gate
altitude_ungated(g) == Returns(g.alt)

altitude(g) ==
    IF g.mode < 3 THEN Raises("NoFixError") ELSE Returns(g.alt)

movement(g) ==
    IF g.mode < 3 THEN Raises("NoFixError")
    ELSE Returns([speed |-> g.hspeed, track |-> g.track, climb |-> g.climb])

\* the comparison without abs()
speed_vertical_no_abs(g, h) ==
    IF g.mode < 2 THEN Raises("NoFixError")
    ELSE IF ~HasKeys(h[g.error], {"c"}) THEN Raises("KeyError")
    ELSE IF g.climb < h[g.error].c THEN Returns(0)
    ELSE Returns(g.climb)

speed_vertical(g, h) ==
    IF g.mode < 2 THEN Raises("NoFixError")
    ELSE IF ~HasKeys(h[g.error], {"c"}) THEN Raises("KeyError")
    ELSE IF Abs(g.climb) < h[g.error].c THEN Returns(0)
    ELSE Returns(g.climb)

\* a speed() that asks for a 3D fix
speed_needs_3d(g, h) ==
    IF g.mode < 3 THEN Raises("NoFixError")
    ELSE IF ~HasKeys(h[g.error], {"s"}) THEN Raises("KeyError")
    ELSE IF g.hspeed < h[g.error].s THEN Returns(0)
    ELSE Returns(g.hspeed)

speed(g, h) ==
    IF g.mode < 2 THEN Raises("NoFixError")
    ELSE IF ~HasKeys(h[g.error], {"s"}) THEN Raises("KeyError")
    ELSE IF g.hspeed < h[g.error].s THEN Returns(0)
    ELSE Returns(g.hspeed)

position_precision(g, h) ==
    IF g.mode < 2 THEN Raises("NoFixError")
    ELSE IF ~HasKeys(h[g.error], {"x", "y", "v"}) THEN Raises("KeyError")
    ELSE Returns(<<Max(h[g.error].x, h[g.error].y), h[g.error].v>>)

\* the format string with its two arguments filled in
map_url(g) ==
    IF g.mode < 2 THEN Raises("NoFixError")
    ELSE Returns(<<"http://www.openstreetmap.org/?mlat=", g.lat, "&mlon=", g.lon,
                   "&zoom=15">>)

get_heading(g) == Returns(g.heading)
get_pitch(g) == Returns(g.pitch)
get_roll(g) == Returns(g.roll)

Accessors == {"position", "altitude", "movement", "speed_vertical", "speed",
              "position_precision", "map_url", "get_heading", "get_pitch",
              "get_roll"}

\* the call g.<name>()
Accessor(name, g, h) ==
    CASE name = "position" -> position(g)
      [] name = "altitude" -> altitude(g)
      [] name = "movement" -> movement(g)
      [] name = "speed_vertical" -> speed_vertical(g, h)
      [] name = "speed" -> speed(g, h)
      [] name = "position_precision" -> position_precision(g, h)
      [] name = "map_url" -> map_url(g)
      [] name = "get_heading" -> get_heading(g)
      [] name = "get_pitch" -> get_pitch(g)
      [] name = "get_roll" -> get_roll(g)

----------------------------------------------------------------------------
(* The reports of the transport (gpsdclient's dict_stream): decoded JSON   *)
(* objects.  An absent key is an absent record field.                      *)

Sat(used) == [used |-> used]

TpvFix3 == [class |-> "TPV", mode |-> 3, lat |-> 1, lon |-> 1, alt |-> 1,
            epx |-> 1, epv |-> 1]
TpvFix2 == [class |-> "TPV", mode |-> 2, lat |-> 2, lon |-> 2, time |-> "T2"]
SkyTwo  == [class |-> "SKY", satellites |-> <<Sat(TRUE), Sat(FALSE)>>]
PollActive == [class |-> "POLL", active |-> TRUE,
               tpv |-> <<TpvFix3, [class |-> "TPV", mode |-> 2, lat |-> 3, lon |-> 3]>>,
               sky |-> <<SkyTwo, [class |-> "SKY", satellites |-> <<Sat(TRUE)>>]>>]
PollInactive == [class |-> "POLL", active |-> FALSE, tpv |-> <<TpvFix2>>,
                 sky |-> <<SkyTwo>>]

\* what dict_stream may yield to run()
StreamReports == {TpvFix3, TpvFix2, PollActive, PollInactive}

----------------------------------------------------------------------------
(* ThreadedClient                                                          *)
(*                                                                         *)
(* The transport is gpsdclient, used as the code uses it: GPSDClient(host, *)
(* port) returns a client or raises ConnectionRefusedError (what connect() *)
(* catches at line 36), and iterating dict_stream() yields the next report *)
(* or raises ConnectionRefusedError (what run() catches at line 62).  The  *)
(* stream yields at most MaxReports reports; it can fail at any time.      *)
(* Each action is one step of one thread between two points where another  *)
(* thread may run.                                                         *)

\* a lock that excludes nobody
CanAcquire_always(l) == TRUE

\* threading.Lock.acquire(): proceeds only when nobody holds the lock
CanAcquire(l) == l = "free"

\* acquire()/release() around the body, without try/finally
with_exit_no_finally(raises) == IF raises = "none" THEN "free" ELSE "run"

\* leaving a `with self._lock:` block, by return or by exception
with_exit(raises) == "free"

\* copy.copy(g): a new object that shares the error dict of g
copy_shallow(g, h) == [g |-> g, h |-> h]

\* copy.deepcopy(g): a new object whose error is a new dict with equal items
deepcopy(g, h) ==
    LET n == Alloc(DOMAIN h)
    IN  [g |-> [g EXCEPT !.error = n],
         h |-> [i \in DOMAIN h \cup {n} |-> IF i = n THEN h[g.error] ELSE h[i]]]

Init ==
    /\ running = FALSE
    /\ lock = "free"
    /\ gps = GpsResponseInit(0)
    /\ heap = (0 :> EmptyDict)
    /\ gpsd = "None"
    /\ pcMain = "init"
    /\ pcRun = "unstarted"
    /\ todo = Call(<<>>, "none")
    /\ exc = "none"
    /\ nstarted = 0
    /\ pcReader = [r \in Readers |-> "out"]
    /\ snap = [r \in Readers |-> <<>>]
    /\ stream = <<>>
    /\ atError = <<>>
    /\ ret = <<>>

mainVars   == <<pcMain, nstarted>>
runVars    == <<pcRun, todo, exc>>
readerVars == <<pcReader, snap>>

(* connect(), lines 32-38: one attempt of GPSDClient(host, port) *)
connect_ok ==
    /\ pcMain \in {"init", "retry"}
    /\ gpsd' = "client"
    /\ pcMain' = "start"
    /\ UNCHANGED <<ret, running, lock, gps, heap, nstarted, runVars, readerVars, stream, atError>>

\* a refused attempt that leaves the retry loop
connect_refused_gives_up ==
    /\ pcMain \in {"init", "retry"}
    /\ pcMain' = "start"
    /\ UNCHANGED <<ret, running, lock, gps, gpsd, heap, nstarted, runVars, readerVars, stream, atError>>

connect_refused ==
    /\ pcMain \in {"init", "retry"}
    /\ pcMain' = "sleep"
    /\ UNCHANGED <<ret, running, lock, gps, gpsd, heap, nstarted, runVars, readerVars, stream, atError>>

connect_sleep ==
    /\ pcMain = "sleep"
    /\ pcMain' = "retry"
    /\ UNCHANGED <<ret, running, lock, gps, gpsd, heap, nstarted, runVars, readerVars, stream, atError>>

(* connect(), line 39: self.start(), then connect returns *)
connect_start ==
    /\ pcMain = "start"
    /\ pcRun = "unstarted"
    /\ pcRun' = "start"
    /\ nstarted' = nstarted + 1
    /\ pcMain' = "connected"
    /\ UNCHANGED <<ret, running, lock, gps, gpsd, heap, todo, exc, readerVars, stream, atError>>

(* terminate(), line 43 *)
terminate_flag ==
    /\ pcMain = "connected"
    /\ running' = FALSE
    /\ pcMain' = "join"
    /\ UNCHANGED <<ret, lock, gps, gpsd, heap, nstarted, runVars, readerVars, stream, atError>>

\* a join() that does not wait
Joinable_nowait(pc) == TRUE

\* Thread.join(): returns once run() has ended, by return or by exception
Joinable(pc) == pc \in {"done", "dead"}

(* terminate(), line 44 *)
terminate_join ==
    /\ pcMain = "join"
    /\ Joinable(pcRun)
    /\ pcMain' = "terminated"
    /\ UNCHANGED <<ret, running, lock, gps, gpsd, heap, nstarted, runVars, readerVars, stream, atError>>

(* run(), line 54 *)
run_start ==
    /\ pcRun = "start"
    /\ running' = TRUE
    /\ pcRun' = "while"
    /\ UNCHANGED <<ret, lock, gps, gpsd, heap, mainVars, todo, exc, readerVars, stream, atError>>

(* run(), line 55: while self._running *)
run_while ==
    /\ pcRun = "while"
    /\ pcRun' = IF running THEN "iter" ELSE "done"
    /\ UNCHANGED <<ret, running, lock, gps, gpsd, heap, mainVars, todo, exc, readerVars,
                   stream, atError>>

(* run(), line 57: the stream yields the next report, `result` *)
run_next_report ==
    /\ pcRun = "iter"
    /\ Len(stream) < MaxReports
    /\ \E r \in StreamReports : stream' = Append(stream, r)
    /\ pcRun' = "check"
    /\ UNCHANGED <<ret, running, lock, gps, gpsd, heap, mainVars, todo, exc, readerVars,
                   atError>>

(* run(), lines 57, 62-63: the stream raises ConnectionRefusedError *)
run_next_refused ==
    /\ pcRun = "iter"
    /\ pcRun' = "sleep"
    /\ atError' = <<Val(gps, heap)>>
    /\ UNCHANGED <<ret, running, lock, gps, gpsd, heap, mainVars, todo, exc, readerVars,
                   stream>>

(* run(), lines 58-59 *)
run_check ==
    /\ pcRun = "check"
    /\ pcRun' = IF running = FALSE THEN "while" ELSE "acquire"
    /\ UNCHANGED <<ret, running, lock, gps, gpsd, heap, mainVars, todo, exc, readerVars,
                   stream, atError>>

(* run(), lines 60-61: enter the with block and call parse_packet(result) *)
run_acquire ==
    /\ pcRun = "acquire"
    /\ CanAcquire(lock)
    /\ lock' = "run"
    /\ todo' = parse_packet(stream[Len(stream)])
    /\ pcRun' = "parse"
    /\ atError' = <<>>
    /\ UNCHANGED <<ret, running, gps, gpsd, heap, mainVars, exc, readerVars, stream>>

(* run(), line 61: the next statement of parse_packet *)
run_parse ==
    /\ pcRun = "parse"
    /\ todo.steps # <<>>
    /\ LET st == Exec(gps, heap, Head(todo.steps))
           nm == Normalize(st.g, snap, st.h)
       IN  gps' = nm.g /\ snap' = nm.snap /\ heap' = nm.h
    /\ todo' = [todo EXCEPT !.steps = Tail(@)]
    /\ UNCHANGED <<ret, running, lock, gpsd, mainVars, pcRun, exc, pcReader, stream, atError>>

(* run(), lines 60-61: parse_packet returns, the with block is left *)
run_parsed ==
    /\ pcRun = "parse"
    /\ todo.steps = <<>>
    /\ todo.raises = "none"
    /\ lock' = with_exit(todo.raises)
    /\ pcRun' = "iter"
    /\ UNCHANGED <<ret, running, gps, gpsd, heap, mainVars, todo, exc, readerVars, stream,
                   atError>>

(* run(), lines 60-61: parse_packet raises; nothing in run() catches it, *)
(* the with block is left and the thread ends                            *)
run_parse_raises ==
    /\ pcRun = "parse"
    /\ todo.steps = <<>>
    /\ todo.raises # "none"
    /\ lock' = with_exit(todo.raises)
    /\ pcRun' = "dead"
    /\ exc' = todo.raises
    /\ UNCHANGED <<ret, running, gps, gpsd, heap, mainVars, todo, readerVars, stream, atError>>

(* run(), line 64 *)
run_sleep ==
    /\ pcRun = "sleep"
    /\ pcRun' = "reconnect"
    /\ UNCHANGED <<ret, running, lock, gps, gpsd, heap, mainVars, todo, exc, readerVars,
                   stream, atError>>

\* a reconnect that also starts over with a new GpsResponse
run_reconnect_resets ==
    /\ pcRun = "reconnect"
    /\ gpsd' = "client"
    /\ pcRun' = "while"
    /\ LET nm == Normalize(GpsResponseInit(Alloc(DOMAIN heap)), snap,
                           [i \in DOMAIN heap \cup {Alloc(DOMAIN heap)} |->
                               IF i \in DOMAIN heap THEN heap[i] ELSE EmptyDict])
       IN  gps' = nm.g /\ snap' = nm.snap /\ heap' = nm.h
    /\ UNCHANGED <<ret, running, lock, mainVars, todo, exc, pcReader, stream, atError>>

(* run(), line 65: GPSDClient(host, port) succeeds *)
run_reconnect_ok ==
    /\ pcRun = "reconnect"
    /\ gpsd' = "client"
    /\ pcRun' = "while"
    /\ UNCHANGED <<ret, running, lock, gps, heap, mainVars, todo, exc, readerVars, stream,
                   atError>>

(* run(), line 65: GPSDClient(host, port) raises ConnectionRefusedError; *)
(* line 65 is inside the except clause, outside the try                  *)
run_reconnect_refused ==
    /\ pcRun = "reconnect"
    /\ pcRun' = "dead"
    /\ exc' = "ConnectionRefusedError"
    /\ UNCHANGED <<ret, running, lock, gps, gpsd, heap, mainVars, todo, readerVars, stream,
                   atError>>

(* get_current(), line 48: enter the with block *)
get_current_acquire(r) ==
    /\ pcReader[r] = "out"
    /\ CanAcquire(lock)
    /\ lock' = r
    /\ pcReader' = [pcReader EXCEPT ![r] = "locked"]
    /\ UNCHANGED <<ret, running, gps, gpsd, heap, mainVars, runVars, snap, stream, atError>>

(* get_current(), line 49 *)
get_current_copy(r) ==
    /\ pcReader[r] = "locked"
    /\ LET cp == deepcopy(gps, heap)
           nm == Normalize(gps, [snap EXCEPT ![r] = <<cp.g>>], cp.h)
       IN  gps' = nm.g /\ snap' = nm.snap /\ heap' = nm.h
    /\ pcReader' = [pcReader EXCEPT ![r] = "copied"]
    /\ UNCHANGED <<ret, running, lock, gpsd, mainVars, runVars, stream, atError>>

(* get_current(), lines 48, 50: leave the with block and return rval *)
get_current_return(r) ==
    /\ pcReader[r] = "copied"
    /\ lock' = with_exit("none")
    /\ pcReader' = [pcReader EXCEPT ![r] = "out"]
    /\ UNCHANGED <<ret, running, gps, gpsd, heap, mainVars, runVars, snap, stream, atError>>

(* A caller of get_current() writes into the object it was returned: *)
(* x.lat = Scribble; x.error['x'] = Scribble                         *)
caller_write(r) ==
    /\ pcReader[r] = "out"
    /\ snap[r] # <<>>
    /\ LET st == Exec(snap[r][1], heap, SetAttr("lat", Scribble))
           st2 == Exec(st.g, st.h, SetItem("x", Scribble))
       IN  snap' = [snap EXCEPT ![r] = <<st2.g>>] /\ heap' = st2.h
    /\ UNCHANGED <<ret, running, lock, gps, gpsd, mainVars, runVars, pcReader, stream,
                   atError>>

Next ==
    \/ connect_ok \/ connect_refused \/ connect_sleep \/ connect_start
    \/ terminate_flag \/ terminate_join
    \/ run_start \/ run_while \/ run_next_report \/ run_next_refused \/ run_check
    \/ run_acquire \/ run_parse \/ run_parsed \/ run_parse_raises
    \/ run_sleep \/ run_reconnect_ok \/ run_reconnect_refused
    \/ \E r \in Readers :
          \/ get_current_acquire(r) \/ get_current_copy(r) \/ get_current_return(r)
          \/ caller_write(r)

Spec == Init /\ [][Next]_vars

\* the steps of the background thread
RunStep ==
    \/ run_start \/ run_while \/ run_next_report \/ run_next_refused \/ run_check
    \/ run_acquire \/ run_parse \/ run_parsed \/ run_parse_raises
    \/ run_sleep \/ run_reconnect_ok \/ run_reconnect_refused

(* Scheduling: a thread that can take a step eventually takes one; the     *)
(* transport eventually yields a report or an error; a thread waiting for  *)
(* the lock gets it if it is free again and again; join() returns once the *)
(* thread has ended.  The callers are not obliged to call anything.        *)
FairSpec ==
    /\ Spec
    /\ WF_vars(RunStep)
    /\ SF_vars(run_acquire)
    /\ WF_vars(terminate_join)
    /\ \A r \in Readers : WF_vars(get_current_copy(r) \/ get_current_return(r))

----------------------------------------------------------------------------
(* The sequential merge: parse_packet called on one GpsResponse, report    *)
(* after report, by a single thread (as GpsResponse.from_json does once).  *)

PosNone == EmptyDict
PosA == [lat |-> 1, lon |-> 2, track |-> 3, speed |-> 1, eps |-> 2, time |-> "T1",
         epx |-> 1, epy |-> 2, ept |-> 1]
PosB == [lat |-> 2, lon |-> 1, speed |-> 2, eps |-> 1, epx |-> 2]
VertNone == EmptyDict
VertU == [alt |-> 5, climb |-> 1, epc |-> 2, epv |-> 3]
VertV == [alt |-> 6, climb |-> -2, epc |-> 1]
VertW == [alt |-> 7, climb |-> 1]

TpvReport(mode, pos, vert) == [class |-> "TPV", mode |-> mode] @@ pos @@ vert

TpvReports ==
    {TpvReport(3, p, v) : p \in {PosNone, PosA, PosB},
                          v \in {VertNone, VertU, VertV, VertW}}
    \cup {TpvReport(2, p, v) : p \in {PosNone, PosA, PosB}, v \in {VertNone, VertU}}
    \cup {TpvReport(m, PosNone, VertNone) : m \in 0..1}
    \cup {TpvReport(m, PosA, VertU) : m \in 0..1}

SkyReports == {[class |-> "SKY"],
               [class |-> "SKY", satellites |-> <<>>],
               [class |-> "SKY", satellites |-> <<Sat(TRUE), Sat(FALSE), Sat(TRUE)>>],
               [class |-> "SKY",
                satellites |-> <<Sat(TRUE), Sat(TRUE), Sat(FALSE), Sat(TRUE), Sat(FALSE),
                                 Sat(TRUE), Sat(FALSE), Sat(TRUE)>>]}

AttReports == {[class |-> "ATT"],
               [class |-> "ATT", heading |-> 4, pitch |-> 5, roll |-> 6],
               [class |-> "ATT", pitch |-> 7]}

PollReports == {PollActive, PollInactive,
                [class |-> "POLL", active |-> TRUE,
                 tpv |-> <<TpvReport(3, PosA, VertU), TpvReport(1, PosB, VertNone)>>,
                 sky |-> <<SkyTwo, [class |-> "SKY"]>>]}

OtherReports == {[class |-> "VERSION"]}

MergeReports == TpvReports \cup SkyReports \cup AttReports \cup PollReports
                \cup OtherReports

(* self.parse_packet(packet): every statement of the call, then its outcome *)
apply(packet) ==
    /\ Len(stream) < MaxApply
    /\ LET call == parse_packet(packet)
           st == ExecAll(gps, heap, call.steps)
           nm == Normalize(st.g, snap, st.h)
       IN  gps' = nm.g /\ heap' = nm.h /\ exc' = call.raises
    /\ stream' = Append(stream, packet)
    /\ ret' = <<>>
    /\ UNCHANGED <<running, lock, gpsd, mainVars, pcRun, todo, readerVars, atError>>

(* one accessor called on the GpsResponse; it only reads *)
access(name) ==
    /\ ret' = <<name, Accessor(name, gps, heap)>>
    /\ UNCHANGED <<running, lock, gps, gpsd, heap, mainVars, runVars, readerVars, stream,
                   atError>>

MergeNext ==
    \/ \E packet \in MergeReports : apply(packet)
    \/ \E name \in Accessors : access(name)

SpecMerge == Init /\ [][MergeNext]_vars

----------------------------------------------------------------------------
(* Properties *)

\* the state reached by parse_packet applied to each report in turn,
\* starting from a new GpsResponse
RECURSIVE Merged(_)
Merged(reports) ==
    IF reports = <<>> THEN [g |-> GpsResponseInit(0), h |-> (0 :> EmptyDict)]
    ELSE LET prev == Merged(SubSeq(reports, 1, Len(reports) - 1))
         IN  ExecAll(prev.g, prev.h, parse_packet(reports[Len(reports)]).steps)

MergedVal(reports) == LET st == Merged(reports) IN Val(st.g, st.h)

\* reader r's snapshot as the reader sees it: <<>> or <<value>>
SnapVal(r) == IF snap[r] = <<>> THEN <<>> ELSE <<Val(snap[r][1], heap)>>

\* C1: whatever the interleaving of run() with get_current() calls, the copy
\* a get_current() call has just made is the state reached by applying a
\* complete prefix of the reports the stream yielded, in order, to the empty
\* state; it never holds part of a report.
C1_SnapshotIsPrefix ==
    \A r \in Readers :
        pcReader[r] = "copied" =>
            \E k \in 0..Len(stream) : SnapVal(r) = <<MergedVal(SubSeq(stream, 1, k))>>

\* a copy made while run() holds the second report it was yielded, showing
\* the first report and nothing of the second
C1_Witness ==
    \E r \in Readers :
        /\ pcReader[r] = "copied"
        /\ pcRun = "acquire"
        /\ Len(stream) = 2
        /\ SnapVal(r) = <<MergedVal(SubSeq(stream, 1, 1))>>
        /\ SnapVal(r) # <<MergedVal(stream)>>
        /\ SnapVal(r) # <<MergedVal(<<>>)>>

\* C2: once terminate() has returned, no step changes the accumulator's
\* state, and every copy get_current() makes from then on is that state.
C2_NoMutationAfterStop ==
    [][pcMain = "terminated" =>
          /\ Val(gps', heap') = Val(gps, heap)
          /\ \A r \in Readers :
                 (pcReader[r] = "locked" /\ pcReader'[r] = "copied")
                    => SnapVal(r)' = <<Val(gps, heap)>>]_vars

\* terminate() has returned, the last report the stream yielded was not
\* applied, and a reader has copied the state since
C2_Witness ==
    /\ pcMain = "terminated"
    /\ pcRun = "done"
    /\ Len(stream) = 2
    /\ Val(gps, heap) = MergedVal(SubSeq(stream, 1, 1))
    /\ Val(gps, heap) # MergedVal(stream)
    /\ \E r \in Readers : pcReader[r] = "copied" /\ SnapVal(r) = <<Val(gps, heap)>>

\* C3: under fair scheduling and a transport that keeps yielding, a
\* terminate() call made after connect() returned eventually returns.
C3_StopReturns == (pcMain = "join") ~> (pcMain = "terminated")

\* C4: a connection refused while run() re-establishes the connection is
\* retried: it never ends the background loop.
C4_ReconnectRetried == ~(pcRun = "dead" /\ exc = "ConnectionRefusedError")

\* C5: the background loop ends only after terminate() asked it to: while
\* terminate() has not been called, run() neither returns nor dies.
C5_ExitsOnlyAfterStop ==
    pcRun \in {"done", "dead"} => pcMain \in {"join", "terminated"}

\* C6: from the transport's connection error until the next report starts
\* being applied, the accumulator's state is the state it had when the error
\* was raised, and so is every copy get_current() makes.
C6_OutagePreservesFix ==
    atError # <<>> =>
        /\ <<Val(gps, heap)>> = atError
        /\ \A r \in Readers : pcReader[r] = "copied" => SnapVal(r) = atError

\* the transport failed after a fix was merged, and a reader copies the fix
\* while run() is reconnecting
C6_Witness ==
    /\ atError # <<>>
    /\ pcRun = "reconnect"
    /\ gps.mode >= 2
    /\ \E r \in Readers : pcReader[r] = "copied" /\ SnapVal(r) = atError

\* C7: a caller writing into its snapshot changes neither the accumulator's
\* state nor any other caller's snapshot, and a statement of parse_packet
\* executed by run() changes no snapshot.
C7_SnapshotIndependent ==
    [][/\ \A r \in Readers :
             caller_write(r) =>
                 /\ Val(gps', heap') = Val(gps, heap)
                 /\ \A q \in Readers \ {r} : SnapVal(q)' = SnapVal(q)
       /\ run_parse => \A r \in Readers : SnapVal(r)' = SnapVal(r)]_vars

\* one caller has written into its snapshot, attribute and dict item; the
\* other caller's snapshot and the accumulator show a fix, without the write
C7_Witness ==
    \E r, q \in Readers :
        /\ r # q /\ snap[r] # <<>> /\ snap[q] # <<>>
        /\ SnapVal(r)[1].lat = Scribble /\ Get(SnapVal(r)[1].error, "x", 0) = Scribble
        /\ SnapVal(q)[1].mode >= 2
        /\ SnapVal(q)[1].lat # Scribble /\ Get(SnapVal(q)[1].error, "x", 0) # Scribble
        /\ gps.mode >= 2 /\ gps.lat # Scribble /\ Get(heap[gps.error], "x", 0) # Scribble
        /\ SnapVal(q)[1] # Val(gps, heap)

\* C8: run() holds the lock only while it executes parse_packet, never while
\* it waits for the stream, sleeps, reconnects or after it has ended (also
\* by an exception of parse_packet); a reader holds it only inside
\* get_current(), where its next step is always enabled.
C8_LockOnlyWhileApplying ==
    /\ lock = "run" <=> pcRun = "parse"
    /\ \A r \in Readers : lock = r <=> pcReader[r] \in {"locked", "copied"}

\* parse_packet raised in run(), and a reader got the lock afterwards
C8_Witness ==
    /\ pcRun = "dead" /\ exc = "UserWarning"
    /\ \E r \in Readers : pcReader[r] = "copied" /\ lock = r

\* C9: as long as no connection attempt has succeeded, connect() is still
\* in its retry loop and no thread was started; once connect() has returned
\* it has started the thread exactly once.
C9_ConnectThenStartOnce ==
    /\ gpsd = "None" =>
           pcMain \in {"init", "sleep", "retry"} /\ pcRun = "unstarted" /\ nstarted = 0
    /\ pcMain \in {"connected", "join", "terminated"} => nstarted = 1
    /\ pcRun = "unstarted" <=> nstarted = 0

\* connect() has just returned: connected, one thread started
C9_Witness ==
    pcMain = "connected" /\ gpsd = "client" /\ nstarted = 1 /\ pcRun = "start"

\* the reports are all TPV with mode >= 2, their modes never decrease
NonDecreasingFixes(reports) ==
    \A i \in 1..Len(reports) :
        /\ reports[i].class = "TPV"
        /\ reports[i].mode >= 2
        /\ i > 1 => reports[i - 1].mode <= reports[i].mode

\* C10: after each report of a sequence of TPV reports with modes >= 2 that
\* never decrease, position() returns the (lat, lon) pair of that report.
C10_PositionIsLast ==
    (stream # <<>> /\ NonDecreasingFixes(stream)
       /\ {"lat", "lon"} \subseteq DOMAIN stream[Len(stream)])
    => position(gps) = Returns(<<stream[Len(stream)].lat, stream[Len(stream)].lon>>)

\* a 2D report then a 3D report with another position
C10_Witness ==
    /\ Len(stream) = 2 /\ NonDecreasingFixes(stream)
    /\ stream[1].mode = 2 /\ stream[2].mode = 3
    /\ {"lat", "lon"} \subseteq DOMAIN stream[1]
    /\ {"lat", "lon"} \subseteq DOMAIN stream[2]
    /\ stream[1].lat # stream[2].lat
    /\ position(gps) = Returns(<<stream[2].lat, stream[2].lon>>)

\* the last report applied, and the one before it
Last(reports) == reports[Len(reports)]
Previous(reports) == reports[Len(reports) - 1]

\* this step is the call parse_packet(packet) with a packet of class cls
Applies(cls) ==
    /\ Len(stream') = Len(stream) + 1
    /\ stream' = Append(stream, Last(stream'))
    /\ Last(stream').class = cls

\* a TPV report of mode 1 has just been applied after a TPV report of mode 3
ModeDropped ==
    /\ Len(stream) >= 2
    /\ Previous(stream).class = "TPV" /\ Previous(stream).mode = 3
    /\ Last(stream).class = "TPV" /\ Last(stream).mode = 1

\* C11 as stated: after a mode-1 TPV report that follows a mode-3 report,
\* altitude() still returns the altitude of the mode-3 report and movement()
\* fails with NoFixError.
C11_AltitudeStillReturned ==
    ModeDropped =>
        /\ altitude(gps) = Returns(Get(Previous(stream), "alt", 0))
        /\ movement(gps) = Raises("NoFixError")

\* C11 amended: after a mode-1 TPV report that follows a mode-3 report, the
\* alt attribute still holds the altitude of the mode-3 report, and
\* altitude() and movement() both fail with NoFixError.
C11_AltitudeKeptButGated ==
    ModeDropped =>
        /\ gps.alt = Get(Previous(stream), "alt", 0)
        /\ altitude(gps) = Raises("NoFixError")
        /\ movement(gps) = Raises("NoFixError")

\* mode 3 with altitude 5, then mode 1: altitude() was called and raised
C11_Witness ==
    /\ ModeDropped
    /\ Get(Previous(stream), "alt", 0) = 5
    /\ gps.alt = 5
    /\ ret = <<"altitude", Raises("NoFixError")>>

\* the least fix quality each accessor asks for
MinMode(name) ==
    IF name \in {"position", "speed", "speed_vertical", "position_precision", "map_url"}
    THEN 2
    ELSE IF name \in {"altitude", "movement"} THEN 3
    ELSE 0

\* C12: in every reachable state each accessor raises NoFixError exactly when
\* mode is below its minimum (2 for position, speed, speed_vertical,
\* position_precision, map_url; 3 for altitude, movement; none for
\* get_heading, get_pitch, get_roll) and returns otherwise; and no accessor
\* call changes the GpsResponse.
C12_AccessorGates ==
    /\ [](\A name \in Accessors :
             Accessor(name, gps, heap).raised =
                 IF gps.mode < MinMode(name) THEN "NoFixError" ELSE "none")
    /\ [][(\E name \in Accessors : access(name))
             => Val(gps', heap') = Val(gps, heap)]_vars

\* at a 2D fix movement() was called and raised
C12_Witness ==
    /\ gps.mode = 2
    /\ ret # <<>>
    /\ ret[1] = "movement"
    /\ ret[2] = Raises("NoFixError")
    /\ position(gps).raised = "none"

\* C13: after a mode-3 TPV report with climb c and epc e (each 0 when
\* absent), speed_vertical() returns 0 when |c| < e and c otherwise.
C13_VerticalSpeedClamp ==
    (stream # <<>> /\ Last(stream).class = "TPV" /\ Last(stream).mode = 3) =>
        LET c == Get(Last(stream), "climb", 0)
            e == Get(Last(stream), "epc", 0)
        IN  speed_vertical(gps, heap) = Returns(IF Abs(c) < e THEN 0 ELSE c)

\* climb -2 with epc 1 (not clamped), then climb 1 with epc 2: clamped to 0
C13_Witness ==
    /\ Len(stream) = 2
    /\ stream[1] = TpvReport(3, PosA, VertV)
    /\ stream[2] = TpvReport(3, PosA, VertU)
    /\ ret = <<"speed_vertical", Returns(0)>>

\* the number of entries of a satellite list flagged used
UsedCount(sats) == Cardinality({i \in 1..Len(sats) : sats[i].used = TRUE})

\* C14: a SKY report with a satellite list sets sats to the length of the
\* list and sats_valid to the number of entries flagged used; one without a
\* satellites key sets both to 0; no other attribute changes.
C14_SkyCountsOnly ==
    [][Applies("SKY") =>
          LET sky == Last(stream')
              n == IF "satellites" \in DOMAIN sky THEN Len(sky.satellites) ELSE 0
              u == IF "satellites" \in DOMAIN sky THEN UsedCount(sky.satellites) ELSE 0
          IN  Val(gps', heap') = [Val(gps, heap) EXCEPT !.sats = n, !.sats_valid = u]]_vars

\* a 3D fix, then a SKY report of 8 satellites with 5 used
C14_Witness ==
    /\ Len(stream) = 2
    /\ stream[1] = TpvReport(3, PosA, VertU)
    /\ Last(stream).class = "SKY"
    /\ gps.sats = 8 /\ gps.sats_valid = 5
    /\ gps.mode = 3 /\ gps.lat = 1 /\ gps.alt = 5

\* C15: parse_packet on a POLL report whose active flag is false raises
\* (UserWarning) and leaves every attribute as it was, whatever the
\* sub-reports are.
C15_InactivePollNoEffect ==
    [][(Applies("POLL") /\ ~Last(stream').active) =>
          (exc' = "UserWarning" /\ Val(gps', heap') = Val(gps, heap))]_vars

\* a 3D fix, then an inactive POLL carrying another position: the call
\* raised and the fix is the first report's
C15_Witness ==
    /\ Len(stream) = 2
    /\ stream[1] = TpvReport(3, PosA, VertU)
    /\ Last(stream) = PollInactive
    /\ exc = "UserWarning"
    /\ Val(gps, heap) = MergedVal(<<stream[1]>>)
    /\ gps.lat # Last(PollInactive.tpv).lat

\* C16: every TPV report sets mode to the report's mode; a TPV report with
\* mode below 2 changes no other attribute, whatever fields it carries.
C16_TpvSetsModeLowModeOnlyMode ==
    [][Applies("TPV") =>
          LET tpv == Last(stream')
          IN  /\ gps'.mode = tpv.mode
              /\ tpv.mode < 2 =>
                    Val(gps', heap') = [Val(gps, heap) EXCEPT !.mode = tpv.mode]]_vars

\* a 3D fix, then a mode-1 report carrying other coordinates: the mode is 1
\* and the coordinates, altitude and margins are the first report's
C16_Witness ==
    /\ Len(stream) = 2
    /\ stream[1] = TpvReport(3, PosB, VertV)
    /\ stream[2] = TpvReport(1, PosA, VertU)
    /\ gps.mode = 1
    /\ gps.lat = 2 /\ gps.lon = 1 /\ gps.alt = 6 /\ gps.climb = -2
    /\ heap[gps.error].c = 1

C18_PollIsLastTpvThenLastSky ==
    [][(Applies("POLL") /\ Last(stream').active) =>
          LET poll == Last(stream')
              one == ExecAll(gps, heap, parse_packet(Last(poll.tpv)).steps)
              two == ExecAll(one.g, one.h, parse_packet(Last(poll.sky)).steps)
          IN  /\ Last(poll.tpv).class = "TPV" /\ Last(poll.sky).class = "SKY"
              /\ exc' = "none"
              /\ Val(gps', heap') = Val(two.g, two.h)]_vars

\* an active POLL whose lists have two differing entries each: the state
\* shows the last entries (mode 2, lat 3, one satellite), not the first
C18_Witness ==
    /\ stream = <<PollActive>>
    /\ Len(PollActive.tpv) = 2 /\ Len(PollActive.sky) = 2
    /\ gps.mode = 2 /\ gps.lat = 3 /\ gps.sats = 1 /\ gps.sats_valid = 1
    /\ PollActive.tpv[1].mode = 3 /\ Len(PollActive.sky[1].satellites) = 2

ErrorKeys == {"c", "s", "t", "v", "x", "y"}

\* C19: in every state reached by applying TPV, SKY, ATT and POLL reports to
\* a new GpsResponse, mode >= 2 implies that the error dict has all six keys,
\* so speed(), speed_vertical() and position_precision() never raise
\* anything but NoFixError.
C19_ErrorKeysAtFix ==
    /\ gps.mode >= 2 => DOMAIN heap[gps.error] = ErrorKeys
    /\ \A name \in {"speed", "speed_vertical", "position_precision"} :
           Accessor(name, gps, heap).raised \in {"none", "NoFixError"}

\* the first report is a 2D fix: the dict, empty until then, has six keys
\* and speed_vertical() was called and returned
C19_Witness ==
    /\ Len(stream) = 1
    /\ Last(stream).class = "TPV" /\ Last(stream).mode = 2
    /\ MergedVal(<<>>).error = EmptyDict
    /\ DOMAIN heap[gps.error] = ErrorKeys
    /\ ret # <<>> /\ ret[1] = "speed_vertical" /\ ret[2].raised = "none"

\* C20: sats_valid <= sats and both are >= 0 in every reachable state, and a
\* step that applies a report of a class other than SKY and POLL changes
\* neither counter.
C20_UsedAtMostVisible ==
    /\ [](0 <= gps.sats_valid /\ gps.sats_valid <= gps.sats)
    /\ [][(Len(stream') = Len(stream) + 1 /\ Last(stream').class \notin {"SKY", "POLL"})
             => (gps'.sats = gps.sats /\ gps'.sats_valid = gps.sats_valid)]_vars

\* 8 satellites visible, 5 used, and a TPV report applied since
C20_Witness ==
    /\ Len(stream) = 2
    /\ stream[1].class = "SKY"
    /\ stream[2].class = "TPV" /\ stream[2].mode = 3
    /\ gps.sats = 8 /\ gps.sats_valid = 5

====
